---- MODULE Spec2Model ----
(***************************************************************************)
(* Model of pkg/workloads/deploymentConfig.go: the DeploymentConfig        *)
(* accessors (create / update / delete / get / list) over an injected      *)
(* cluster client, and the request builder RequestDeploymentConfig.        *)
(*                                                                         *)
(* Two specifications share the variables:                                 *)
(*   Spec      - NumCallers callers run the accessors concurrently against *)
(*               one store; every client call is one atomic step.          *)
(*   SpecBuild - RequestDeploymentConfig on a request drawn from bounded   *)
(*               sets, the mutation loop taken one callback per step.      *)
(***************************************************************************)
EXTENDS Integers, Sequences, FiniteSets, TLC

VARIABLES
    store,      \* the cluster: (name, namespace) -> stored object or None
    pc,         \* per caller: position inside the accessor it is running
    op,         \* per caller: the accessor being run and its arguments
    calls,      \* per caller: the client calls the running accessor has issued
    ret,        \* per caller: the error the accessor returned
    got,        \* per caller: the object GetDeploymentConfig returned
    listed,     \* per caller: the list ListDeploymentConfigs returned
    request,    \* the DeploymentConfigRequest handed to RequestDeploymentConfig
    bpc,        \* position inside RequestDeploymentConfig
    deploymentConfig, \* the object under construction (nil before line 104)
    idx,        \* index of the next mutation of the range loop
    mutationErr,\* the local mutationErr
    invoked,    \* the callback invocations made so far, with their arguments
    result      \* the (object, error) pair returned

crudVars  == <<store, pc, op, calls, ret, got, listed>>
buildVars == <<request, bpc, deploymentConfig, idx, mutationErr, invoked, result>>
vars      == <<store, pc, op, calls, ret, got, listed,
               request, bpc, deploymentConfig, idx, mutationErr, invoked, result>>

(***************************************************************************)
(* Bounds.                                                                 *)
(***************************************************************************)
NumCallers   == 2
MaxMutations == 3

Callers    == 1..NumCallers
Names      == {"dc"}
Namespaces == {"ns1", "ns2"}
Keys       == [name : Names, namespace : Namespaces]
Contents   == {"v1", "v2"}

None  == "none"
NoErr == "nil"
NotFound       == "NotFound"
AlreadyExists  == "AlreadyExists"
TransportError == "TransportError"

NoKey == [name |-> "", namespace |-> ""]
NoObj == [key |-> NoKey, content |-> None]
NoOp  == [kind |-> "none", key |-> NoKey, content |-> None]

(***************************************************************************)
(* The injected client.  Each operator is one remote call: it yields the   *)
(* error, the store afterwards and, for Get, the object read.  `fault' is  *)
(* a client failure other than the ones the store decides.                 *)
(***************************************************************************)
ClientGet(st, key, fault) ==
    IF fault THEN [err |-> TransportError, store |-> st, obj |-> NoObj]
    ELSE IF st[key] = None THEN [err |-> NotFound, store |-> st, obj |-> NoObj]
    ELSE [err |-> NoErr, store |-> st, obj |-> [key |-> key, content |-> st[key]]]

ClientCreate(st, key, content, fault) ==
    IF fault THEN [err |-> TransportError, store |-> st]
    ELSE IF st[key] # None THEN [err |-> AlreadyExists, store |-> st]
    ELSE [err |-> NoErr, store |-> [st EXCEPT ![key] = content]]

ClientUpdate(st, key, content, fault) ==
    IF fault THEN [err |-> TransportError, store |-> st]
    ELSE IF st[key] = None THEN [err |-> NotFound, store |-> st]
    ELSE [err |-> NoErr, store |-> [st EXCEPT ![key] = content]]

ClientDelete(st, key, fault) ==
    IF fault THEN [err |-> TransportError, store |-> st]
    ELSE IF st[key] = None THEN [err |-> NotFound, store |-> st]
    ELSE [err |-> NoErr, store |-> [st EXCEPT ![key] = None]]

\* listOptions: "all" (no option) or a namespace (client.InNamespace).
ListOptions == {"all"} \cup Namespaces
ClientList(st, listOptions, fault) ==
    IF fault THEN [err |-> TransportError, items |-> {}]
    ELSE [err |-> NoErr,
          items |-> {k \in Keys : /\ st[k] # None
                                  /\ listOptions \in {"all", k.namespace}}]

\* One entry of the per-caller log of client calls.
Call(verb, key, r, st) ==
    [verb |-> verb, key |-> key, err |-> r.err, changed |-> (r.store # st)]

(***************************************************************************)
(* The accessors.                                                          *)
(***************************************************************************)
CreateDeploymentConfig(c, key, content) ==
    /\ pc[c] = "idle"
    /\ \E fault \in BOOLEAN :
         LET r == ClientCreate(store, key, content, fault) IN
         /\ store' = r.store
         /\ calls' = [calls EXCEPT ![c] = <<Call("Create", key, r, store)>>]
         /\ ret' = [ret EXCEPT ![c] = r.err]
    /\ op' = [op EXCEPT ![c] = [kind |-> "create", key |-> key, content |-> content]]
    /\ pc' = [pc EXCEPT ![c] = "done"]
    /\ UNCHANGED <<got, listed>>
    /\ UNCHANGED buildVars

GetDeploymentConfig(c, key) ==
    /\ pc[c] = "idle"
    /\ \E fault \in BOOLEAN :
         LET r == ClientGet(store, key, fault) IN
         /\ calls' = [calls EXCEPT ![c] = <<Call("Get", key, r, store)>>]
         /\ ret' = [ret EXCEPT ![c] = r.err]
         /\ got' = [got EXCEPT ![c] = IF r.err # NoErr THEN NoObj ELSE r.obj]
    /\ op' = [op EXCEPT ![c] = [kind |-> "get", key |-> key, content |-> None]]
    /\ pc' = [pc EXCEPT ![c] = "done"]
    /\ UNCHANGED <<store, listed>>
    /\ UNCHANGED buildVars

\* The namespace parameter is not used by the code: only listOptions reach
\* the client.
ListDeploymentConfigs(c, namespace, listOptions) ==
    /\ pc[c] = "idle"
    /\ \E fault \in BOOLEAN :
         LET r == ClientList(store, listOptions, fault) IN
         /\ calls' = [calls EXCEPT ![c] =
                        <<[verb |-> "List", key |-> NoKey, err |-> r.err,
                           changed |-> FALSE]>>]
         /\ ret' = [ret EXCEPT ![c] = r.err]
         /\ listed' = [listed EXCEPT ![c] = IF r.err # NoErr THEN {} ELSE r.items]
    /\ op' = [op EXCEPT ![c] = [kind |-> "list", key |-> NoKey, content |-> None]]
    /\ pc' = [pc EXCEPT ![c] = "done"]
    /\ UNCHANGED <<store, got>>
    /\ UNCHANGED buildVars

\* Faulty variant of the existence check: the Get's error is dropped and the
\* write is attempted anyway.
UpdateDeploymentConfigGet_ErrorDropped(c, key, content) ==
    /\ pc[c] = "idle"
    /\ \E fault \in BOOLEAN :
         LET r == ClientGet(store, key, fault) IN
         calls' = [calls EXCEPT ![c] = <<Call("Get", key, r, store)>>]
    /\ pc' = [pc EXCEPT ![c] = "update_write"]
    /\ op' = [op EXCEPT ![c] = [kind |-> "update", key |-> key, content |-> content]]
    /\ UNCHANGED <<store, ret, got, listed>>
    /\ UNCHANGED buildVars

\* UpdateDeploymentConfig, lines 56-59: the existence check.
UpdateDeploymentConfigGet(c, key, content) ==
    /\ pc[c] = "idle"
    /\ \E fault \in BOOLEAN :
         LET r == ClientGet(store, key, fault) IN
         /\ calls' = [calls EXCEPT ![c] = <<Call("Get", key, r, store)>>]
         /\ IF r.err # NoErr
              THEN /\ ret' = [ret EXCEPT ![c] = r.err]
                   /\ pc' = [pc EXCEPT ![c] = "done"]
              ELSE /\ ret' = ret
                   /\ pc' = [pc EXCEPT ![c] = "update_write"]
    /\ op' = [op EXCEPT ![c] = [kind |-> "update", key |-> key, content |-> content]]
    /\ UNCHANGED <<store, got, listed>>
    /\ UNCHANGED buildVars

\* Faulty variant of the write: a NotFound from client Update is swallowed.
UpdateDeploymentConfigUpdate_NotFoundSwallowed(c) ==
    /\ pc[c] = "update_write"
    /\ \E fault \in BOOLEAN :
         LET r == ClientUpdate(store, op[c].key, op[c].content, fault) IN
         /\ store' = r.store
         /\ calls' = [calls EXCEPT ![c] =
                        Append(@, Call("Update", op[c].key, r, store))]
         /\ ret' = [ret EXCEPT ![c] = IF r.err = NotFound THEN NoErr ELSE r.err]
    /\ pc' = [pc EXCEPT ![c] = "done"]
    /\ UNCHANGED <<op, got, listed>>
    /\ UNCHANGED buildVars

\* UpdateDeploymentConfig, lines 61-64: the write.
UpdateDeploymentConfigUpdate(c) ==
    /\ pc[c] = "update_write"
    /\ \E fault \in BOOLEAN :
         LET r == ClientUpdate(store, op[c].key, op[c].content, fault) IN
         /\ store' = r.store
         /\ calls' = [calls EXCEPT ![c] =
                        Append(@, Call("Update", op[c].key, r, store))]
         /\ ret' = [ret EXCEPT ![c] = r.err]
    /\ pc' = [pc EXCEPT ![c] = "done"]
    /\ UNCHANGED <<op, got, listed>>
    /\ UNCHANGED buildVars

\* Faulty variant of the lookup: NotFound is surfaced like any other error.
DeleteDeploymentConfigGet_NotFoundSurfaced(c, key) ==
    /\ pc[c] = "idle"
    /\ \E fault \in BOOLEAN :
         LET r == ClientGet(store, key, fault) IN
         /\ calls' = [calls EXCEPT ![c] = <<Call("Get", key, r, store)>>]
         /\ IF r.err # NoErr
              THEN /\ ret' = [ret EXCEPT ![c] = r.err]
                   /\ pc' = [pc EXCEPT ![c] = "done"]
                   /\ got' = got
              ELSE /\ ret' = ret
                   /\ pc' = [pc EXCEPT ![c] = "delete_write"]
                   /\ got' = [got EXCEPT ![c] = r.obj]
    /\ op' = [op EXCEPT ![c] = [kind |-> "delete", key |-> key, content |-> None]]
    /\ UNCHANGED <<store, listed>>
    /\ UNCHANGED buildVars

\* DeleteDeploymentConfig, lines 68-74: the lookup, NotFound tolerated.
DeleteDeploymentConfigGet(c, key) ==
    /\ pc[c] = "idle"
    /\ \E fault \in BOOLEAN :
         LET r == ClientGet(store, key, fault) IN
         /\ calls' = [calls EXCEPT ![c] = <<Call("Get", key, r, store)>>]
         /\ IF r.err # NoErr
              THEN /\ ret' = [ret EXCEPT ![c] =
                                IF r.err # NotFound THEN r.err ELSE NoErr]
                   /\ pc' = [pc EXCEPT ![c] = "done"]
                   /\ got' = got
              ELSE /\ ret' = ret
                   /\ pc' = [pc EXCEPT ![c] = "delete_write"]
                   /\ got' = [got EXCEPT ![c] = r.obj]
    /\ op' = [op EXCEPT ![c] = [kind |-> "delete", key |-> key, content |-> None]]
    /\ UNCHANGED <<store, listed>>
    /\ UNCHANGED buildVars

\* Faulty variant of the delete: a failed client Delete is tried once more.
DeleteDeploymentConfigDelete_Retried(c) ==
    /\ pc[c] = "delete_write"
    /\ \E fault \in BOOLEAN :
         LET r == ClientDelete(store, got[c].key, fault) IN
         /\ store' = r.store
         /\ calls' = [calls EXCEPT ![c] =
                        Append(@, Call("Delete", got[c].key, r, store))]
         /\ ret' = [ret EXCEPT ![c] = r.err]
         /\ pc' = [pc EXCEPT ![c] =
                     IF r.err # NoErr /\ Len(calls[c]) < 2 THEN "delete_write"
                     ELSE "done"]
    /\ UNCHANGED <<op, got, listed>>
    /\ UNCHANGED buildVars

\* DeleteDeploymentConfig, lines 76-79: the delete of the object read.
DeleteDeploymentConfigDelete(c) ==
    /\ pc[c] = "delete_write"
    /\ \E fault \in BOOLEAN :
         LET r == ClientDelete(store, got[c].key, fault) IN
         /\ store' = r.store
         /\ calls' = [calls EXCEPT ![c] =
                        Append(@, Call("Delete", got[c].key, r, store))]
         /\ ret' = [ret EXCEPT ![c] = r.err]
    /\ pc' = [pc EXCEPT ![c] = "done"]
    /\ UNCHANGED <<op, got, listed>>
    /\ UNCHANGED buildVars

\* The accessor has returned; the caller is free to issue its next call.
Return(c) ==
    /\ pc[c] = "done"
    /\ pc' = [pc EXCEPT ![c] = "idle"]
    /\ op' = [op EXCEPT ![c] = NoOp]
    /\ calls' = [calls EXCEPT ![c] = <<>>]
    /\ ret' = [ret EXCEPT ![c] = NoErr]
    /\ got' = [got EXCEPT ![c] = NoObj]
    /\ listed' = [listed EXCEPT ![c] = {}]
    /\ UNCHANGED store
    /\ UNCHANGED buildVars

(***************************************************************************)
(* The request builder.  Strings that the code only compares or copies are *)
(* TLA+ strings; error messages, which the code formats, are sequences of  *)
(* words so that "appears in" is decidable.                                *)
(***************************************************************************)
RequestNames       == {"", "custom"}
InstanceNames      == {"argocd", "gitops"}
Components         == {"server", "repo"}
Clients            == {"clientA", "clientB"}

EmptyMap == [k \in {} |-> ""]

LabelKeyName      == "app.kubernetes.io/name"
LabelKeyInstance  == "app.kubernetes.io/instance"
LabelKeyComponent == "app.kubernetes.io/component"
AnnotationKeyName      == "argocds.argoproj.io/name"
AnnotationKeyNamespace == "argocds.argoproj.io/namespace"

\* Caller-supplied maps: nil, one that collides with a default key, one
\* that adds a key.
CallerLabels ==
    {EmptyMap, [k \in {LabelKeyName} |-> "mine"], [k \in {"tier"} |-> "x"],
     [k \in {LabelKeyInstance, "tier"} |-> "x"]}
CallerAnnotations ==
    {EmptyMap, [k \in {AnnotationKeyName} |-> "mine"], [k \in {"note"} |-> "y"]}

\* argoutil.GenerateResourceName: the deterministic combination of the
\* instance name and the component.
GenerateResourceName(instanceName, component) ==
    instanceName \o "-" \o component

\* common.DefaultLabels / common.DefaultAnnotations: the fixed default sets.
DefaultLabels(resourceName, instanceName, component) ==
    [k \in {LabelKeyName, LabelKeyInstance, LabelKeyComponent} |->
        CASE k = LabelKeyName      -> resourceName
          [] k = LabelKeyInstance  -> instanceName
          [] k = LabelKeyComponent -> component]

DefaultAnnotations(instanceName, instanceNamespace) ==
    [k \in {AnnotationKeyName, AnnotationKeyNamespace} |->
        CASE k = AnnotationKeyName      -> instanceName
          [] k = AnnotationKeyNamespace -> instanceNamespace]

\* argoutil.MergeMaps: later maps win on a key collision.
MergeMaps(a, b) ==
    [k \in (DOMAIN a) \cup (DOMAIN b) |-> IF k \in DOMAIN b THEN b[k] ELSE a[k]]

NilDeploymentConfig ==
    [isNil |-> TRUE, Name |-> "", Namespace |-> "", Labels |-> EmptyMap,
     Annotations |-> EmptyMap, Applied |-> <<>>]

\* Faulty variant: the explicit name is ignored.
newDeploymentConfig_NameIgnored(name, instanceName, instanceNamespace, component, labels, annotations) ==
    LET deploymentConfigName == GenerateResourceName(instanceName, component)
    IN  [isNil       |-> FALSE,
         Name        |-> deploymentConfigName,
         Namespace   |-> instanceNamespace,
         Labels      |-> MergeMaps(DefaultLabels(deploymentConfigName, instanceName, component), labels),
         Annotations |-> MergeMaps(DefaultAnnotations(instanceName, instanceNamespace), annotations),
         Applied     |-> <<>>]

\* Faulty variant: the arguments of MergeMaps are swapped, the defaults win.
newDeploymentConfig_DefaultsWin(name, instanceName, instanceNamespace, component, labels, annotations) ==
    LET deploymentConfigName ==
            IF name # "" THEN name
            ELSE GenerateResourceName(instanceName, component)
    IN  [isNil       |-> FALSE,
         Name        |-> deploymentConfigName,
         Namespace   |-> instanceNamespace,
         Labels      |-> MergeMaps(labels, DefaultLabels(deploymentConfigName, instanceName, component)),
         Annotations |-> MergeMaps(annotations, DefaultAnnotations(instanceName, instanceNamespace)),
         Applied     |-> <<>>]

newDeploymentConfig(name, instanceName, instanceNamespace, component, labels, annotations) ==
    LET deploymentConfigName ==
            IF name # "" THEN name
            ELSE GenerateResourceName(instanceName, component)
    IN  [isNil       |-> FALSE,
         Name        |-> deploymentConfigName,
         Namespace   |-> instanceNamespace,
         Labels      |-> MergeMaps(DefaultLabels(deploymentConfigName, instanceName, component), labels),
         Annotations |-> MergeMaps(DefaultAnnotations(instanceName, instanceNamespace), annotations),
         Applied     |-> <<>>]

\* Errors: nil, or a message (a sequence of words).
NilError == [isNil |-> TRUE, msg |-> <<>>]
ErrorOf(msg) == [isNil |-> FALSE, msg |-> msg]

\* mutation.MutateFunc values a caller may supply: each changes the object
\* in place (recorded in Applied) and then succeeds or fails with its own
\* message.
MutateFuncs == [id : {"m1", "m2"}, fails : BOOLEAN]
MutateMsg(m) == <<m.id, "failed">>
MutateEffect(m, dc) == [dc EXCEPT !.Applied = Append(@, m.id)]
MutateErr(m) == IF m.fails THEN ErrorOf(MutateMsg(m)) ELSE NilError

\* fmt.Errorf("RequestDeploymentConfig: one or more mutation functions
\* could not be applied: %s", mutationErr)
ErrPrefix ==
    <<"RequestDeploymentConfig:", "one", "or", "more", "mutation", "functions",
      "could", "not", "be", "applied:">>
Errorf(err) == ErrorOf(ErrPrefix \o err.msg)

SeqsUpTo(S, n) == UNION {[1..k -> S] : k \in 0..n}

Requests ==
    [Name : RequestNames, InstanceName : InstanceNames,
     InstanceNamespace : Namespaces, Component : Components,
     Labels : CallerLabels, Annotations : CallerAnnotations,
     Mutations : SeqsUpTo(MutateFuncs, MaxMutations), Client : Clients]

NoRequest ==
    [Name |-> "", InstanceName |-> "", InstanceNamespace |-> "", Component |-> "",
     Labels |-> EmptyMap, Annotations |-> EmptyMap, Mutations |-> <<>>, Client |-> ""]
NoResult == [obj |-> NilDeploymentConfig, err |-> NilError]

\* RequestDeploymentConfig, line 104 and the guard of line 106.
RequestDeploymentConfigNew ==
    /\ bpc = "start"
    /\ deploymentConfig' =
         newDeploymentConfig(request.Name, request.InstanceName,
                             request.InstanceNamespace, request.Component,
                             request.Labels, request.Annotations)
    /\ idx' = 1
    /\ bpc' = IF Len(request.Mutations) > 0 THEN "loop" ELSE "return"
    /\ UNCHANGED <<request, mutationErr, invoked, result>>
    /\ UNCHANGED crudVars

\* Faulty variant of the loop: the first failure is kept, later ones dropped.
RequestDeploymentConfigMutate_FirstErrorKept ==
    /\ bpc = "loop"
    /\ idx <= Len(request.Mutations)
    /\ LET mutation == request.Mutations[idx]
           err == MutateErr(mutation)
       IN  /\ invoked' = Append(invoked,
                            [index |-> idx, fn |-> mutation, prev |-> "nil",
                             obj |-> deploymentConfig, client |-> request.Client])
           /\ deploymentConfig' = MutateEffect(mutation, deploymentConfig)
           /\ mutationErr' = IF ~err.isNil /\ mutationErr.isNil THEN err ELSE mutationErr
    /\ idx' = idx + 1
    /\ bpc' = IF idx = Len(request.Mutations) THEN "check" ELSE "loop"
    /\ UNCHANGED <<request, result>>
    /\ UNCHANGED crudVars

\* Faulty variant of the loop: a failing callback ends the loop.
RequestDeploymentConfigMutate_StopsAtFailure ==
    /\ bpc = "loop"
    /\ idx <= Len(request.Mutations)
    /\ LET mutation == request.Mutations[idx]
           err == MutateErr(mutation)
       IN  /\ invoked' = Append(invoked,
                            [index |-> idx, fn |-> mutation, prev |-> "nil",
                             obj |-> deploymentConfig, client |-> request.Client])
           /\ deploymentConfig' = MutateEffect(mutation, deploymentConfig)
           /\ mutationErr' = IF ~err.isNil THEN err ELSE mutationErr
           /\ bpc' = IF idx = Len(request.Mutations) \/ ~err.isNil THEN "check" ELSE "loop"
    /\ idx' = idx + 1
    /\ UNCHANGED <<request, result>>
    /\ UNCHANGED crudVars

\* RequestDeploymentConfig, lines 107-112: one iteration of the range loop.
RequestDeploymentConfigMutate ==
    /\ bpc = "loop"
    /\ idx <= Len(request.Mutations)
    /\ LET mutation == request.Mutations[idx]
           err == MutateErr(mutation)
       IN  /\ invoked' = Append(invoked,
                            [index |-> idx, fn |-> mutation, prev |-> "nil",
                             obj |-> deploymentConfig, client |-> request.Client])
           /\ deploymentConfig' = MutateEffect(mutation, deploymentConfig)
           /\ mutationErr' = IF ~err.isNil THEN err ELSE mutationErr
    /\ idx' = idx + 1
    /\ bpc' = IF idx = Len(request.Mutations) THEN "check" ELSE "loop"
    /\ UNCHANGED <<request, result>>
    /\ UNCHANGED crudVars

\* Faulty variant of the error return: nil is returned in place of the object.
RequestDeploymentConfigCheck_NilObject ==
    /\ bpc = "check"
    /\ IF ~mutationErr.isNil
         THEN /\ result' = [obj |-> NilDeploymentConfig, err |-> Errorf(mutationErr)]
              /\ bpc' = "done"
         ELSE /\ result' = result
              /\ bpc' = "return"
    /\ UNCHANGED <<request, deploymentConfig, idx, mutationErr, invoked>>
    /\ UNCHANGED crudVars

\* RequestDeploymentConfig, lines 113-115: the error return after the loop.
RequestDeploymentConfigCheck ==
    /\ bpc = "check"
    /\ IF ~mutationErr.isNil
         THEN /\ result' = [obj |-> deploymentConfig, err |-> Errorf(mutationErr)]
              /\ bpc' = "done"
         ELSE /\ result' = result
              /\ bpc' = "return"
    /\ UNCHANGED <<request, deploymentConfig, idx, mutationErr, invoked>>
    /\ UNCHANGED crudVars

\* RequestDeploymentConfig, line 118.
RequestDeploymentConfigReturn ==
    /\ bpc = "return"
    /\ result' = [obj |-> deploymentConfig, err |-> NilError]
    /\ bpc' = "done"
    /\ UNCHANGED <<request, deploymentConfig, idx, mutationErr, invoked>>
    /\ UNCHANGED crudVars

BuildIdle ==
    /\ request = NoRequest
    /\ bpc = "off"
    /\ deploymentConfig = NilDeploymentConfig
    /\ idx = 0
    /\ mutationErr = NilError
    /\ invoked = <<>>
    /\ result = NoResult

CrudIdle ==
    /\ store = [k \in Keys |-> None]
    /\ pc = [c \in Callers |-> "off"]
    /\ op = [c \in Callers |-> NoOp]
    /\ calls = [c \in Callers |-> <<>>]
    /\ ret = [c \in Callers |-> NoErr]
    /\ got = [c \in Callers |-> NoObj]
    /\ listed = [c \in Callers |-> {}]

InitBuild ==
    /\ request \in Requests
    /\ bpc = "start"
    /\ deploymentConfig = NilDeploymentConfig
    /\ idx = 0
    /\ mutationErr = NilError
    /\ invoked = <<>>
    /\ result = NoResult
    /\ CrudIdle

NextBuild ==
    \/ RequestDeploymentConfigNew
    \/ RequestDeploymentConfigMutate
    \/ RequestDeploymentConfigCheck
    \/ RequestDeploymentConfigReturn

SpecBuild == InitBuild /\ [][NextBuild]_vars

Init ==
    /\ store \in [Keys -> Contents \cup {None}]
    /\ pc = [c \in Callers |-> "idle"]
    /\ op = [c \in Callers |-> NoOp]
    /\ calls = [c \in Callers |-> <<>>]
    /\ ret = [c \in Callers |-> NoErr]
    /\ got = [c \in Callers |-> NoObj]
    /\ listed = [c \in Callers |-> {}]
    /\ BuildIdle

Next ==
    \E c \in Callers :
        \/ \E key \in Keys, content \in Contents : CreateDeploymentConfig(c, key, content)
        \/ \E key \in Keys : GetDeploymentConfig(c, key)
        \/ \E ns \in Namespaces, lo \in ListOptions : ListDeploymentConfigs(c, ns, lo)
        \/ \E key \in Keys, content \in Contents : UpdateDeploymentConfigGet(c, key, content)
        \/ UpdateDeploymentConfigUpdate(c)
        \/ \E key \in Keys : DeleteDeploymentConfigGet(c, key)
        \/ DeleteDeploymentConfigDelete(c)
        \/ Return(c)

Spec == Init /\ [][Next]_vars

(***************************************************************************)
(* Helpers of the properties.                                              *)
(***************************************************************************)
Contains(s, t) ==
    \E i \in 1..(Len(s) - Len(t) + 1) : SubSeq(s, i, i + Len(t) - 1) = t

FailingIndexes(ms) == {i \in 1..Len(ms) : ms[i].fails}
LastFailing(ms) ==
    CHOOSE i \in FailingIndexes(ms) : \A j \in FailingIndexes(ms) : j <= i

Built == bpc \in {"loop", "check", "return", "done"}

(***************************************************************************)
(* Properties of the accessors, checked under Spec.                        *)
(***************************************************************************)

\* C1: DeleteDeploymentConfig whose Get fails stops there: it has issued the
\* Get alone (no client Delete), no call of it changed the store, and it
\* returns nil when the Get answered NotFound and the Get's error otherwise.
C1_DeleteGetFailure ==
    \A c \in Callers :
        (op[c].kind = "delete" /\ calls[c][1].err # NoErr) =>
            /\ pc[c] = "done"
            /\ Len(calls[c]) = 1
            /\ calls[c][1].verb = "Get"
            /\ calls[c][1].key = op[c].key
            /\ ~calls[c][1].changed
            /\ ret[c] = IF calls[c][1].err = NotFound THEN NoErr ELSE calls[c][1].err

C1_Witness ==
    \E c, d \in Callers :
        /\ op[c].kind = "delete" /\ pc[c] = "done"
        /\ calls[c][1].err = NotFound /\ ret[c] = NoErr
        /\ op[d].kind = "delete" /\ pc[d] = "done"
        /\ calls[d][1].err = TransportError /\ ret[d] = TransportError

\* C2: UpdateDeploymentConfig starts with a Get of the object's own
\* (name, namespace); when that Get fails (NotFound for an absent object)
\* its error is returned, client Update is never called and no call changed
\* the store; client Update is only ever the second call, after a Get of
\* the same key that succeeded.
C2_UpdateChecksExistence ==
    \A c \in Callers :
        op[c].kind = "update" =>
            /\ calls[c][1].verb = "Get"
            /\ calls[c][1].key = op[c].key
            /\ calls[c][1].err # NoErr =>
                  /\ pc[c] = "done"
                  /\ Len(calls[c]) = 1
                  /\ ret[c] = calls[c][1].err
                  /\ ~calls[c][1].changed
            /\ \A i \in 1..Len(calls[c]) :
                  calls[c][i].verb = "Update" =>
                      /\ i = 2
                      /\ calls[c][1].err = NoErr
                      /\ calls[c][i].key = calls[c][1].key

C2_Witness ==
    \E c \in Callers :
        /\ op[c].kind = "update" /\ pc[c] = "done"
        /\ store[op[c].key] = None
        /\ Len(calls[c]) = 1
        /\ calls[c][1].err = NotFound /\ ret[c] = NotFound

\* C6 as stated: a finished accessor has issued exactly one client call,
\* except update, which has issued at most two; a failed call is never
\* followed by another.
C6_SingleRoundTripExceptUpdate ==
    \A c \in Callers :
        pc[c] = "done" =>
            /\ Len(calls[c]) >= 1
            /\ op[c].kind # "update" => Len(calls[c]) = 1
            /\ op[c].kind = "update" => Len(calls[c]) <= 2
            /\ \A i \in 1..(Len(calls[c]) - 1) : calls[c][i].err = NoErr

\* C6 amended: a finished create, get or list has issued exactly one client
\* call; update and delete have issued one (the Get, when it failed) or two
\* (Get then Update, Get then Delete); no accessor issues the same call
\* twice, and a failed call is never followed by another.
C6_RoundTrips ==
    \A c \in Callers :
        /\ Len(calls[c]) <= 2
        /\ \A i \in 1..(Len(calls[c]) - 1) : calls[c][i].err = NoErr
        /\ \A i, j \in 1..Len(calls[c]) : i # j => calls[c][i].verb # calls[c][j].verb
        /\ pc[c] = "done" =>
              /\ Len(calls[c]) >= 1
              /\ op[c].kind \in {"create", "get", "list"} => Len(calls[c]) = 1
              /\ op[c].kind = "update" =>
                    Len(calls[c]) = IF calls[c][1].err = NoErr THEN 2 ELSE 1
              /\ op[c].kind = "delete" =>
                    Len(calls[c]) = IF calls[c][1].err = NoErr THEN 2 ELSE 1

C6_Witness ==
    \E c, d \in Callers :
        /\ op[c].kind = "delete" /\ pc[c] = "done"
        /\ Len(calls[c]) = 2 /\ calls[c][2].verb = "Delete"
        /\ op[d].kind = "update" /\ pc[d] = "done"
        /\ Len(calls[d]) = 2 /\ calls[d][2].err = TransportError

\* C9: whatever happened between its Get and its write, an update that
\* reached client Update returns that call's error verbatim, and a failed
\* Update (NotFound on an object deleted meanwhile) leaves the store as it
\* was: the object is not re-created.
C9_UpdateRace ==
    \A c \in Callers :
        (op[c].kind = "update" /\ Len(calls[c]) = 2) =>
            /\ pc[c] = "done"
            /\ ret[c] = calls[c][2].err
            /\ calls[c][2].verb = "Update"
            /\ calls[c][2].key = op[c].key
            /\ calls[c][2].err # NoErr => ~calls[c][2].changed

\* The race: update's Get succeeded, a second caller's delete removed the
\* object, update's client Update answered NotFound and the object is gone.
C9_Witness ==
    \E c, d \in Callers :
        /\ op[c].kind = "update" /\ pc[c] = "done"
        /\ Len(calls[c]) = 2
        /\ calls[c][1].err = NoErr
        /\ calls[c][2].verb = "Update" /\ calls[c][2].err = NotFound
        /\ ret[c] = NotFound
        /\ op[d].kind = "delete" /\ op[d].key = op[c].key /\ pc[d] = "done"
        /\ Len(calls[d]) = 2 /\ calls[d][2].err = NoErr /\ calls[d][2].changed
        /\ store[op[c].key] = None

\* C10: DeleteDeploymentConfig never returns NotFound to its caller.
C10_DeleteNeverNotFound ==
    \A c \in Callers :
        (op[c].kind = "delete" /\ pc[c] = "done") => ret[c] # NotFound

(***************************************************************************)
(* Properties of the builder, checked under SpecBuild.                     *)
(***************************************************************************)

\* C3: RequestDeploymentConfig returns a non-nil object, and a non-nil
\* error exactly when some callback of request.Mutations failed.
C3_ObjectAlwaysErrorIffFailure ==
    bpc = "done" =>
        /\ ~result.obj.isNil
        /\ ~result.err.isNil <=> FailingIndexes(request.Mutations) # {}

C3_Witness ==
    /\ bpc = "done"
    /\ Len(request.Mutations) = 3
    /\ Cardinality(FailingIndexes(request.Mutations)) = 1
    /\ ~result.obj.isNil
    /\ ~result.err.isNil

\* C4: the built object is named request.Name when that is non-empty and
\* otherwise by the generated name, which every request with an empty Name
\* and the same (InstanceName, Component) gets, whatever its namespace,
\* labels and annotations; its namespace is request.InstanceNamespace.
C4_NameAndNamespace ==
    Built =>
        /\ request.Name # "" => deploymentConfig.Name = request.Name
        /\ request.Name = "" =>
              /\ deploymentConfig.Name =
                    GenerateResourceName(request.InstanceName, request.Component)
              /\ \A ns \in Namespaces, l \in CallerLabels, a \in CallerAnnotations :
                    newDeploymentConfig("", request.InstanceName, ns,
                                        request.Component, l, a).Name
                        = deploymentConfig.Name
        /\ deploymentConfig.Namespace = request.InstanceNamespace

C4_Witness ==
    /\ Built
    /\ request.Name = ""
    /\ request.InstanceName = "argocd" /\ request.Component = "server"
    /\ deploymentConfig.Name = "argocd-server"
    /\ deploymentConfig.Namespace = "ns2"

\* C5: in the built object, labels and annotations are the defaults merged
\* with the caller's map: the keys are those of both, a caller-supplied key
\* carries the caller's value even when the defaults have it too, any other
\* default key carries its default value.
C5_MergedLabelsAndAnnotations ==
    Built =>
        LET dl == DefaultLabels(deploymentConfig.Name, request.InstanceName,
                                request.Component)
            da == DefaultAnnotations(request.InstanceName, request.InstanceNamespace)
        IN  /\ DOMAIN deploymentConfig.Labels = DOMAIN dl \cup DOMAIN request.Labels
            /\ \A k \in DOMAIN request.Labels :
                  deploymentConfig.Labels[k] = request.Labels[k]
            /\ \A k \in DOMAIN dl \ DOMAIN request.Labels :
                  deploymentConfig.Labels[k] = dl[k]
            /\ DOMAIN deploymentConfig.Annotations =
                  DOMAIN da \cup DOMAIN request.Annotations
            /\ \A k \in DOMAIN request.Annotations :
                  deploymentConfig.Annotations[k] = request.Annotations[k]
            /\ \A k \in DOMAIN da \ DOMAIN request.Annotations :
                  deploymentConfig.Annotations[k] = da[k]

C5_Witness ==
    /\ bpc \in {"loop", "return"} /\ invoked = <<>>
    /\ LabelKeyName \in DOMAIN request.Labels
    /\ deploymentConfig.Labels[LabelKeyName] = "mine"
    /\ deploymentConfig.Labels[LabelKeyInstance] = request.InstanceName
    /\ AnnotationKeyName \in DOMAIN request.Annotations
    /\ deploymentConfig.Annotations[AnnotationKeyName] = "mine"
    /\ deploymentConfig.Annotations[AnnotationKeyNamespace] = request.InstanceNamespace

\* C7: when callbacks failed, the returned error is the fixed prefix
\* followed by the message of the failing callback of highest index; the
\* message of an earlier failure (one that differs from it) does not appear
\* in it, and successes after the last failure do not clear it.
C7_LastFailureReported ==
    (bpc = "done" /\ FailingIndexes(request.Mutations) # {}) =>
        LET last == LastFailing(request.Mutations) IN
        /\ ~result.err.isNil
        /\ result.err.msg = ErrPrefix \o MutateMsg(request.Mutations[last])
        /\ \A j \in FailingIndexes(request.Mutations) :
              MutateMsg(request.Mutations[j]) # MutateMsg(request.Mutations[last])
                  => ~Contains(result.err.msg, MutateMsg(request.Mutations[j]))

C7_Witness ==
    /\ bpc = "done"
    /\ Len(request.Mutations) = 3
    /\ request.Mutations[1] = [id |-> "m1", fails |-> TRUE]
    /\ request.Mutations[2] = [id |-> "m2", fails |-> TRUE]
    /\ request.Mutations[3] = [id |-> "m1", fails |-> FALSE]
    /\ Contains(result.err.msg, <<"m2", "failed">>)
    /\ ~Contains(result.err.msg, <<"m1", "failed">>)

\* C8: the callbacks are invoked once each, in the order of
\* request.Mutations, with a nil previous object and request.Client, each on
\* the object as the callbacks before it left it; failures stop nothing and
\* undo nothing, so the returned object carries the effects of all of them
\* in order on top of the default object.
C8_AllCallbacksInOrder ==
    /\ Built =>
          /\ Len(invoked) = idx - 1
          /\ \A i \in 1..Len(invoked) :
                /\ invoked[i].index = i
                /\ invoked[i].fn = request.Mutations[i]
                /\ invoked[i].prev = "nil"
                /\ invoked[i].client = request.Client
                /\ invoked[i].obj.Applied = [j \in 1..(i - 1) |-> request.Mutations[j].id]
    /\ bpc = "done" =>
          /\ Len(invoked) = Len(request.Mutations)
          /\ result.obj =
                [newDeploymentConfig(request.Name, request.InstanceName,
                                     request.InstanceNamespace, request.Component,
                                     request.Labels, request.Annotations)
                    EXCEPT !.Applied = [j \in 1..Len(request.Mutations) |->
                                            request.Mutations[j].id]]

C8_Witness ==
    /\ bpc = "done"
    /\ Len(request.Mutations) = 3
    /\ request.Mutations[1].fails /\ ~request.Mutations[2].fails
    /\ Len(invoked) = 3
    /\ result.obj.Applied = <<"m1", "m2", "m1">>
    /\ ~result.err.isNil

====
